---- MODULE Spec2Model ----
(***************************************************************************)
(* GeoVerse backend: identity resolution (config/passport.js), token       *)
(* lifecycle (routes/authRoutes.js), the user model (models/user.js) and   *)
(* the protected data routes (routes/dataRoutes.js).                       *)
(*                                                                         *)
(* The MongoDB collection `users` is the shared store.  Every `await` on   *)
(* a query or a save is one atomic step of a request; requests interleave  *)
(* between their steps.  Time is counted in abstract ticks.                *)
(***************************************************************************)
EXTENDS Integers, Sequences, FiniteSets, TLC

(* ----------------------------- bounds ---------------------------------- *)
NumProcs == 2      \* login requests that may be in flight together
MaxLogins == 3     \* logins started in one behaviour
MaxTime == 2       \* the clock stops here
GateLogins == 2    \* logins started in a behaviour of the gate specification
GateTime == 1      \* the clock of the gate specification stops here
MaxRecords == 1    \* weather records stored in one behaviour
TokenLogins == 2
DataRecords == 2   \* logins started in a behaviour of the token specification

(* ------------------------ program constants ---------------------------- *)
\* lifetimes in ticks; only their order matters (15 minutes < 7 days)
AccessExpiresIn == 1     \* JWT_ACCESS_EXPIRES_IN || '15m'
RefreshExpiresIn == 2    \* JWT_REFRESH_EXPIRES_IN || '7d'
RecordLifetime == 2      \* 7 * 24 * 60 * 60 * 1000 added to Date.now()
DataMax == 100           \* dataLimiter max
AuthMax == 10            \* authLimiter max
GlobalMax == 1000         \* globalLimiter max

Procs == 1..NumProcs
None == 0
Subjects == {"g1", "g2"}
AssertedEmails == {"A@x", "b@x"}   \* as Google asserts them
Statuses == {"active", "inactive", "suspended", "pending"}

VARIABLES
    env,            \* process.env: the secrets and lifetimes the server runs with
    now,            \* the server clock
    users,          \* the users collection: _id -> document
    nextId,         \* ObjectIds handed out so far
    pc,             \* per login request: where it is suspended
    prof,           \* per login request: the Google profile (id, email)
    doc,            \* per login request: _id of the document it loaded or created
    info,           \* per login request: which branch resolved it, and done()'s info
    logins,         \* logins started
    issuedAccess,   \* access tokens handed to callers
    issuedRefresh,  \* refresh tokens handed to callers
    removed,        \* refresh tokens whose record was pulled or deleted
    resp,           \* the answer to the login that has just completed, if one has
    hits,           \* dataLimiter's counter for the caller's IP
    records,        \* the weatherRecords collection
    nextRec,        \* record ids handed out so far
    authHits,       \* authLimiter's counter for the caller's IP
    globalHits,     \* globalLimiter's counter for the caller's IP
    inflight        \* per process: the data or delete request it is handling

vars == <<env, now, users, nextId, pc, prof, doc, info, logins,
          issuedAccess, issuedRefresh, removed, resp, hits, records, nextRec,
          authHits, globalHits,
                   inflight>>

\* what the data routes and the limiters write
dataVars == <<hits, records, nextRec, authHits, globalHits,
                   inflight>>

(* ------------------------------ helpers -------------------------------- *)
\* schema option lowercase: true (emails are stored, and queried, lowercased)
Lower(e) == IF e = "A@x" THEN "a@x" ELSE e

Range(s) == {s[i] : i \in DOMAIN s}

Ids(store) == DOMAIN store

\* no token (a header or body field that is absent)
NoToken == [id |-> None, key |-> "none", iat |-> 0, exp |-> 0]

NoTokens == [accessToken |-> NoToken, refreshToken |-> NoToken]

NoProfile == [id |-> "none", email |-> "none"]

\* the answer to a login: its code, the account, the token pair in the
\* redirect, the profile, the resolver's branch and done()'s info
NoResp ==
    [op |-> "none", code |-> "none", user |-> None,
     access |-> NoToken, refresh |-> NoToken, prof |-> NoProfile,
     branch |-> "none", isNewUser |-> FALSE, is_new_user |-> "none"]

\* a process that handles no data or delete request
NoWork == [stage |-> "idle", user |-> None, records |-> <<>>, totalRecords |-> 0, rec |-> None]

NoInfo == [branch |-> "none", isNewUser |-> FALSE, tokens |-> NoTokens]

(* --------------------------- models/user.js ---------------------------- *)
\* an element of providers (oauthProviderSchema)
Link(provider, providerId, email, t) ==
    [provider |-> provider, providerId |-> providerId, email |-> Lower(email), lastLogin |-> t]

\* an element of tokens
TokenRecord(token, type, expiresAt) ==
    [token |-> token, type |-> type, expiresAt |-> expiresAt]

\* new User({...}) with the schema defaults
NewUser(email, providerId, t) ==
    [email |-> Lower(email),
     status |-> "active",
     providers |-> <<Link("google", providerId, email, t)>>,
     tokens |-> <<>>,
     lastActive |-> t,
     totalRecords |-> 0,
     records |-> <<>>]

\* User.findOne(filter): the first document (in insertion order) the filter
\* matches, or null
FindOne(store, Match(_)) ==
    IF \E id \in Ids(store) : Match(id)
    THEN CHOOSE id \in Ids(store) : Match(id) /\ \A o \in Ids(store) : Match(o) => id <= o
    ELSE None

\* statics.findByOAuthProvider: the two dotted conditions are matched
\* independently over the elements of providers
FindByOAuthProvider(store, provider, providerId) ==
    LET Match(id) == /\ \E l \in Range(store[id].providers) : l.provider = provider
                     /\ \E l \in Range(store[id].providers) : l.providerId = providerId
    IN FindOne(store, Match)

\* User.findOne({ email })
FindByEmail(store, email) ==
    LET Match(id) == store[id].email = Lower(email)
    IN FindOne(store, Match)

\* the unique index on email: may a document with this email be inserted?
EmailIndexFree_NoIndex(store, email) == TRUE

EmailIndexFree(store, email) ==
    \A id \in Ids(store) : store[id].email # Lower(email)

\* findIndex over the loaded document's providers
ProviderIndex(u, provider, providerId) ==
    IF \E i \in DOMAIN u.providers :
          u.providers[i].provider = provider /\ u.providers[i].providerId = providerId
    THEN CHOOSE i \in DOMAIN u.providers :
          /\ u.providers[i].provider = provider /\ u.providers[i].providerId = providerId
          /\ \A j \in DOMAIN u.providers :
                (u.providers[j].provider = provider /\ u.providers[j].providerId = providerId)
                    => i <= j
    ELSE 0

\* save() after providers[i].lastLogin = new Date(): the modified paths are
\* written; the pre-save hook stamps lastActive on a modified, not new, document
SaveLastLogin(u, i, t) ==
    IF i = 0 THEN u
    ELSE [u EXCEPT !.providers[i].lastLogin = t, !.lastActive = t]

\* save() after providers.push(link)
SaveLink_NoPush(u, link, t) == [u EXCEPT !.lastActive = t]

SaveLink(u, link, t) ==
    [u EXCEPT !.providers = Append(@, link), !.lastActive = t]

\* save() after tokens.push(record)
SaveToken_Replace(u, rec, t) ==
    [u EXCEPT !.tokens = <<rec>>, !.lastActive = t]

SaveToken_Twice(u, rec, t) ==
    [u EXCEPT !.tokens = Append(Append(@, rec), rec), !.lastActive = t]

SaveToken(u, rec, t) ==
    [u EXCEPT !.tokens = Append(@, rec), !.lastActive = t]

\* methods.updateLastActive
UpdateLastActive(u, t) == [u EXCEPT !.lastActive = t]

(* ------------------------- jsonwebtoken -------------------------------- *)
\* jwt.sign(payload, secret, { expiresIn }): equal inputs in the same tick
\* give the same string
Sign_NoLifetime(id, secret, t, expiresIn) ==
    [id |-> id, key |-> secret, iat |-> t, exp |-> t]

Sign(id, secret, t, expiresIn) ==
    [id |-> id, key |-> secret, iat |-> t, exp |-> t + expiresIn]

\* jwt.verify(token, secret): the signature first, then the expiry
Verify(token, secret, t) ==
    IF token.key # secret THEN "JsonWebTokenError"
    ELSE IF t >= token.exp THEN "TokenExpiredError"
    ELSE "ok"

\* generateTokens(user)
GenerateTokens(id, e, t) ==
    [accessToken |-> Sign(id, e.JWT_SECRET, t, e.JWT_ACCESS_EXPIRES_IN),
     refreshToken |-> Sign(id, e.JWT_REFRESH_SECRET, t, e.JWT_REFRESH_EXPIRES_IN)]

(* ------------------- authLimiter (routes/authRoutes.js) ---------------- *)
\* express-rate-limit: the request is counted, and refused once the count of
\* the window is over max
AuthLimiter_OffByOne(h) == IF h + 1 > AuthMax + 1 THEN "AUTH_RATE_LIMIT" ELSE "ok"

AuthLimiter(h) == IF h + 1 > AuthMax THEN "AUTH_RATE_LIMIT" ELSE "ok"

\* the limiter counts a request of the caller whose counter is followed, and
\* calls next()
AuthAdmitted ==
    /\ AuthLimiter(authHits) = "ok"
    /\ authHits' = authHits + 1

\* a request from another address: the followed counter is not involved
OtherCaller == UNCHANGED authHits

(* ---------------------- config/passport.js ----------------------------- *)
\* the query of step 1 of the verify callback
StepOneByEmail(store, p) == FindByEmail(store, p.email)

StepOne(store, p) == FindByOAuthProvider(store, "google", p.id)

\* the login request is answered and its slot is free again
Answer(p, r) ==
    /\ pc' = [pc EXCEPT ![p] = "idle"]
    /\ prof' = [prof EXCEPT ![p] = NoProfile]
    /\ doc' = [doc EXCEPT ![p] = None]
    /\ info' = [info EXCEPT ![p] = NoInfo]
    /\ resp' = r

\* the verify callback's catch block (done(error, null)) or the route's
\* (redirect to /auth/error): the caller gets no tokens
LoginFailed(p, code, branch) ==
    [NoResp EXCEPT !.op = "login", !.code = code, !.prof = prof[p], !.branch = branch]

\* a login arrives with Google's profile; User.findByOAuthProvider is awaited
\* (authLimiter, in front of the route, is AuthAdmitted or OtherCaller below)
VerifyByProvider(p, providerId, email) ==
    /\ pc[p] = "idle"
    /\ logins < MaxLogins
    /\ LET found == StepOne(users, [id |-> providerId, email |-> email])
       IN /\ pc' = [pc EXCEPT ![p] = IF found # None THEN "saveLogin" ELSE "byEmail"]
          /\ doc' = [doc EXCEPT ![p] = found]
    /\ prof' = [prof EXCEPT ![p] = [id |-> providerId, email |-> email]]
    /\ logins' = logins + 1
    /\ resp' = NoResp
    /\ UNCHANGED <<env, now, users, nextId, info, issuedAccess, issuedRefresh, removed,
                   hits, records, nextRec, globalHits,
                   inflight>>

\* an existing user: lastLogin is stamped and saved, done(null, user, { isNewUser: false })
SaveLogin(p) ==
    /\ pc[p] = "saveLogin"
    /\ IF doc[p] \in Ids(users)
       THEN /\ users' = [users EXCEPT ![doc[p]] =
                   SaveLastLogin(@, ProviderIndex(@, "google", prof[p].id), now)]
            /\ pc' = [pc EXCEPT ![p] = "issue"]
            /\ info' = [info EXCEPT ![p] = [NoInfo EXCEPT !.branch = "provider"]]
            /\ resp' = NoResp
            /\ UNCHANGED <<prof, doc>>
       ELSE /\ Answer(p, LoginFailed(p, "DocumentNotFoundError", "provider"))
            /\ UNCHANGED users
    /\ UNCHANGED <<env, now, nextId, logins, issuedAccess, issuedRefresh,
                   removed, dataVars>>

\* no user has the Google id; User.findOne({ email }) is awaited
VerifyByEmail(p) ==
    /\ pc[p] = "byEmail"
    /\ LET found == FindByEmail(users, prof[p].email)
       IN /\ pc' = [pc EXCEPT ![p] = IF found # None THEN "saveLink" ELSE "create"]
          /\ doc' = [doc EXCEPT ![p] = found]
    /\ resp' = NoResp
    /\ UNCHANGED <<env, now, users, nextId, prof, info, logins, issuedAccess,
                   issuedRefresh, removed, dataVars>>

\* the email is known: the Google link is pushed and saved
LinkExisting(p) ==
    /\ pc[p] = "saveLink"
    /\ IF doc[p] \in Ids(users)
       THEN /\ users' = [users EXCEPT ![doc[p]] =
                   SaveLink(@, Link("google", prof[p].id, prof[p].email, now), now)]
            /\ pc' = [pc EXCEPT ![p] = "issue"]
            /\ info' = [info EXCEPT ![p] = [NoInfo EXCEPT !.branch = "email"]]
            /\ resp' = NoResp
            /\ UNCHANGED <<prof, doc>>
       ELSE /\ Answer(p, LoginFailed(p, "DocumentNotFoundError", "email"))
            /\ UNCHANGED users
    /\ UNCHANGED <<env, now, nextId, logins, issuedAccess, issuedRefresh,
                   removed, dataVars>>

\* neither lookup found a user: new User(...).save(); a duplicate key is
\* thrown into the catch block, which reports done(error, null)
CreateUser(p) ==
    /\ pc[p] = "create"
    /\ IF EmailIndexFree(users, prof[p].email)
       THEN /\ users' = [id \in Ids(users) \cup {nextId} |->
                            IF id = nextId THEN NewUser(prof[p].email, prof[p].id, now)
                            ELSE users[id]]
            /\ nextId' = nextId + 1
            /\ doc' = [doc EXCEPT ![p] = nextId]
            /\ pc' = [pc EXCEPT ![p] = "issue"]
            /\ info' = [info EXCEPT ![p] =
                   [NoInfo EXCEPT !.branch = "create", !.isNewUser = TRUE]]
            /\ resp' = NoResp
            /\ UNCHANGED prof
       ELSE /\ Answer(p, LoginFailed(p, "E11000", "create"))
            /\ UNCHANGED <<users, nextId>>
    /\ UNCHANGED <<env, now, logins, issuedAccess, issuedRefresh, removed,
                   dataVars>>

(* ----------------------- routes/authRoutes.js -------------------------- *)
\* GET /google/callback, up to the first save: generateTokens, the refresh
\* token is pushed onto user.tokens with a fixed lifetime, and saved
IssueTokens(p) ==
    /\ pc[p] = "issue"
    /\ IF doc[p] \in Ids(users)
       THEN LET t == GenerateTokens(doc[p], env, now)
            IN /\ users' = [users EXCEPT ![doc[p]] =
                      SaveToken(@, TokenRecord(t.refreshToken, "refresh", now + RecordLifetime), now)]
               /\ info' = [info EXCEPT ![p].tokens = t]
               /\ pc' = [pc EXCEPT ![p] = "touch"]
               /\ resp' = NoResp
               /\ UNCHANGED <<prof, doc>>
       ELSE /\ Answer(p, LoginFailed(p, "AuthFailed", info[p].branch))
            /\ UNCHANGED users
    /\ UNCHANGED <<env, now, nextId, logins, issuedAccess, issuedRefresh,
                   removed, dataVars>>

\* GET /google/callback when the store refuses user.save(): the catch block
\* redirects to /auth/error, and what the verify callback has written stays
IssueTokensFails_RollsBack(p) ==
    /\ pc[p] = "issue"
    /\ doc[p] \in Ids(users)
    /\ users' = IF info[p].isNewUser
                THEN [id \in Ids(users) \ {doc[p]} |-> users[id]]
                ELSE users
    /\ Answer(p, LoginFailed(p, "AuthFailed", info[p].branch))
    /\ UNCHANGED <<env, now, nextId, logins, issuedAccess, issuedRefresh,
                   removed, dataVars>>

IssueTokensFails(p) ==
    /\ pc[p] = "issue"
    /\ doc[p] \in Ids(users)
    /\ Answer(p, LoginFailed(p, "AuthFailed", info[p].branch))
    /\ UNCHANGED <<env, now, users, nextId, logins, issuedAccess, issuedRefresh,
                   removed, dataVars>>

\* passport's success: the user is put on req.user, done()'s info on
\* req.authInfo
PassportReq(user, inf) == [user |-> user, authInfo |-> [isNewUser |-> inf.isNewUser]]

\* const { user, isNewUser } = req, as the template string of the redirect
\* prints it
ReqIsNewUser(req) ==
    IF "isNewUser" \in DOMAIN req
    THEN (IF req.isNewUser THEN "true" ELSE "false")
    ELSE "undefined"

\* GET /google/callback, the rest: updateLastActive, then the redirect that
\* carries the token pair
Touch(p) ==
    /\ pc[p] = "touch"
    /\ IF doc[p] \in Ids(users)
       THEN /\ users' = [users EXCEPT ![doc[p]] = UpdateLastActive(@, now)]
            /\ Answer(p, [NoResp EXCEPT !.op = "login", !.code = "ok", !.user = doc[p],
                              !.access = info[p].tokens.accessToken,
                              !.refresh = info[p].tokens.refreshToken,
                              !.prof = prof[p], !.branch = info[p].branch,
                              !.isNewUser = info[p].isNewUser,
                              !.is_new_user = ReqIsNewUser(PassportReq(doc[p], info[p]))])
            /\ issuedAccess' = issuedAccess \cup {info[p].tokens.accessToken}
            /\ issuedRefresh' = issuedRefresh \cup {info[p].tokens.refreshToken}
       ELSE /\ Answer(p, LoginFailed(p, "AuthFailed", info[p].branch))
            /\ UNCHANGED <<users, issuedAccess, issuedRefresh>>
    /\ UNCHANGED <<env, now, nextId, logins, removed, dataVars>>

Login(p) ==
    \/ \E s \in Subjects, e \in AssertedEmails : VerifyByProvider(p, s, e) /\ OtherCaller
    \/ SaveLogin(p)
    \/ VerifyByEmail(p)
    \/ LinkExisting(p)
    \/ CreateUser(p)
    \/ IssueTokens(p)
    \/ Touch(p)

\* tokens a caller can present: the ones handed out, and copies of them
\* signed with a key that is not the server's
Forge(t) == [t EXCEPT !.key = "forged"]

\* the tokens callers hold
Held == issuedAccess \cup issuedRefresh

Presentable == Held \cup {Forge(t) : t \in Held}

\* authenticateToken (and validateOAuthToken of dataRoutes.js, which is the
\* same code): the code and the user it sets on the request
AuthenticateToken_NeedsSession(tok, store, e, t) ==
    IF tok = NoToken THEN [code |-> "MISSING_TOKEN", user |-> None]
    ELSE LET v == Verify(tok, e.JWT_SECRET, t)
         IN IF v = "TokenExpiredError" THEN [code |-> "TOKEN_EXPIRED", user |-> None]
            ELSE IF v # "ok" THEN [code |-> "TOKEN_VERIFICATION_FAILED", user |-> None]
            ELSE IF \/ tok.id \notin Ids(store)
                    \/ store[tok.id].status # "active"
                    \/ store[tok.id].tokens = <<>>
                 THEN [code |-> "INVALID_TOKEN", user |-> None]
                 ELSE [code |-> "ok", user |-> tok.id]

AuthenticateToken(tok, store, e, t) ==
    IF tok = NoToken THEN [code |-> "MISSING_TOKEN", user |-> None]
    ELSE LET v == Verify(tok, e.JWT_SECRET, t)
         IN IF v = "TokenExpiredError" THEN [code |-> "TOKEN_EXPIRED", user |-> None]
            ELSE IF v # "ok" THEN [code |-> "TOKEN_VERIFICATION_FAILED", user |-> None]
            ELSE IF tok.id \notin Ids(store) \/ store[tok.id].status # "active"
                 THEN [code |-> "INVALID_TOKEN", user |-> None]
                 ELSE [code |-> "ok", user |-> tok.id]

\* the query of POST /refresh: each dotted condition on tokens is satisfied
\* by some element of the array, not necessarily the same one
FindRefreshUser_SignatureOnly(store, id, tok, t) ==
    IF id \in Ids(store) THEN id ELSE None

FindRefreshUser(store, id, tok, t) ==
    LET Match(u) == /\ u = id
                    /\ \E r \in Range(store[u].tokens) : r.token = tok
                    /\ \E r \in Range(store[u].tokens) : r.type = "refresh"
                    /\ \E r \in Range(store[u].tokens) : r.expiresAt > t
    IN FindOne(store, Match)

\* POST /refresh: the response, and the user whose lastActive is stamped
RefreshResult(tok, store, e, t) ==
    LET v == Verify(tok, e.JWT_REFRESH_SECRET, t)
        user == IF v = "ok" THEN FindRefreshUser(store, tok.id, tok, t) ELSE None
        fail(code) == [code |-> code, user |-> None, accessToken |-> NoToken]
    IN IF tok = NoToken THEN fail("MISSING_REFRESH_TOKEN")
       ELSE IF v = "TokenExpiredError" THEN fail("REFRESH_TOKEN_EXPIRED")
       ELSE IF v # "ok" THEN fail("TOKEN_REFRESH_ERROR")
       ELSE IF user = None \/ store[user].status # "active"
            THEN fail("INVALID_REFRESH_TOKEN")
            ELSE [code |-> "ok", user |-> user,
                  accessToken |-> GenerateTokens(user, e, t).accessToken]

\* POST /refresh: the HTTP status sent with each code
RefreshStatus(code) ==
    CASE code = "ok" -> 200
      [] code = "MISSING_REFRESH_TOKEN" -> 400
      [] code = "INVALID_REFRESH_TOKEN" -> 401
      [] code = "REFRESH_TOKEN_EXPIRED" -> 401
      [] code = "TOKEN_REFRESH_ERROR" -> 500

\* a refresh that is answered 200; any other answer changes nothing
\* (authLimiter, in front of the route, is AuthAdmitted or OtherCaller below)
Refresh(tok) ==
    /\ LET r == RefreshResult(tok, users, env, now)
       IN /\ r.code = "ok"
          /\ users' = [users EXCEPT ![r.user] = UpdateLastActive(@, now)]
          /\ issuedAccess' = issuedAccess \cup {r.accessToken}
    /\ resp' = NoResp
    /\ UNCHANGED <<env, now, nextId, pc, prof, doc, info, logins, issuedRefresh,
                   removed, hits, records, nextRec, globalHits,
                   inflight>>

\* $pull: { tokens: { token, type: 'refresh' } }
PullToken(u, tok) ==
    [u EXCEPT !.tokens = SelectSeq(@, LAMBDA r : ~(r.token = tok /\ r.type = "refresh"))]

\* $set: { tokens: [] }
ClearTokens_DropOne(u) ==
    [u EXCEPT !.tokens = IF @ = <<>> THEN @ ELSE Tail(@)]

ClearTokens(u) == [u EXCEPT !.tokens = <<>>]

TokenStrings(u) == {r.token : r \in Range(u.tokens)}

\* POST /logout behind authenticateToken; a request that authenticateToken
\* rejects changes nothing
LogoutResult(bearer, tok, store, e, t) ==
    LET auth == AuthenticateToken(bearer, store, e, t)
    IN IF auth.code # "ok" THEN [code |-> auth.code, user |-> None, store |-> store]
       ELSE [code |-> "ok", user |-> auth.user,
             store |-> [store EXCEPT ![auth.user] =
                           IF tok # NoToken THEN PullToken(@, tok) ELSE ClearTokens(@)]]

Logout(bearer, tok) ==
    /\ LET r == LogoutResult(bearer, tok, users, env, now)
       IN /\ r.code = "ok"
          /\ users' = r.store
          /\ removed' = removed \cup
                 (TokenStrings(users[r.user]) \ TokenStrings(users'[r.user]))
    /\ resp' = NoResp
    /\ UNCHANGED <<env, now, nextId, pc, prof, doc, info, logins, issuedAccess,
                   issuedRefresh, dataVars>>

\* GET /me behind authenticateToken
Me(bearer) ==
    /\ LET auth == AuthenticateToken(bearer, users, env, now)
       IN /\ auth.code = "ok"
          /\ users' = [users EXCEPT ![auth.user] = UpdateLastActive(@, now)]
    /\ resp' = NoResp
    /\ UNCHANGED <<env, now, nextId, pc, prof, doc, info, logins, issuedAccess,
                   issuedRefresh, removed, dataVars>>

\* DELETE /account: authenticateToken, then the validator of
\* body.confirmation
DeleteResult_AnyConfirmation(bearer, confirmation, store, e, t) ==
    AuthenticateToken(bearer, store, e, t)

DeleteResult(bearer, confirmation, store, e, t) ==
    LET auth == AuthenticateToken(bearer, store, e, t)
    IN IF auth.code # "ok" THEN auth
       ELSE IF confirmation # "DELETE" THEN [code |-> "VALIDATION_ERROR", user |-> None]
       ELSE auth

\* a deletion that passed both: the user's records and the user are deleted
DeleteAccount(bearer, confirmation) ==
    /\ LET r == DeleteResult(bearer, confirmation, users, env, now)
       IN /\ r.code = "ok"
          /\ records' = {x \in records : x.user # r.user}
          /\ users' = [id \in Ids(users) \ {r.user} |-> users[id]]
          /\ removed' = removed \cup TokenStrings(users[r.user])
    /\ resp' = NoResp
    /\ UNCHANGED <<env, now, nextId, pc, prof, doc, info, logins, issuedAccess,
                   issuedRefresh, hits, nextRec, authHits, globalHits,
                   inflight>>

(* ----------------------- routes/dataRoutes.js -------------------------- *)
NoKey == "none"

\* dataLimiter (express-rate-limit): the request is counted, and refused
\* once the count of the window is over max
DataLimiter(h) == IF h + 1 > DataMax THEN "RATE_LIMIT_EXCEEDED" ELSE "ok"

\* process.env.API_KEY when the variable is not set: undefined, which no
\* header value (a string) is equal to
Unset == "(undefined)"

\* validateApiKey: !apiKey is true of an absent header and of an empty one
ValidateApiKey_OpenWhenUnset(key, e) ==
    IF e.API_KEY = Unset THEN "ok"
    ELSE IF key \in {NoKey, ""} THEN "MISSING_API_KEY"
    ELSE IF key # e.API_KEY THEN "INVALID_API_KEY"
    ELSE "ok"

ValidateApiKey(key, e) ==
    IF key \in {NoKey, ""} THEN "MISSING_API_KEY"
    ELSE IF key # e.API_KEY THEN "INVALID_API_KEY"
    ELSE "ok"

\* validateOAuthToken: the same code as authenticateToken
ValidateOAuthToken(tok, store, e, t) == AuthenticateToken(tok, store, e, t)

\* validateInputData: the body has weather and country with their fields
ValidateInputData(body) == IF body = "valid" THEN "ok" ELSE "MISSING_REQUIRED_FIELDS"

\* the routes of the auth router behind authLimiter
AuthRoutes == {"GET /google", "GET /google/callback", "POST /refresh"}

\* the protected routes of the data router
Routes == {"POST /records", "GET /records", "GET /analytics", "GET /records/stats"}

\* the middleware of router.post(...) and router.get(...), in the order given
\* there
Chain_TokenFirst(route) ==
    IF route = "POST /records"
    THEN <<"dataLimiter", "validateOAuthToken", "validateApiKey", "validateInputData",
           "handler">>
    ELSE IF route \in AuthRoutes THEN <<"authLimiter", "handler">>
    ELSE <<"dataLimiter", "validateOAuthToken", "validateApiKey", "handler">>

Chain(route) ==
    IF route = "POST /records"
    THEN <<"dataLimiter", "validateApiKey", "validateOAuthToken", "validateInputData",
           "handler">>
    ELSE IF route \in AuthRoutes THEN <<"authLimiter", "handler">>
    ELSE <<"dataLimiter", "validateApiKey", "validateOAuthToken", "handler">>

\* the code of the response of a route's handler
HandlerCode(req, store, e, t) ==
    CASE req.route = "POST /records" -> "201"
      [] req.route = "POST /refresh" ->
            LET r == RefreshResult(req.token, store, e, t)
            IN IF r.code = "ok" THEN "200" ELSE r.code
      [] req.route \in {"GET /google", "GET /google/callback"} -> "302"
      [] OTHER -> "200"

\* what one middleware answers: "ok" stands for next(); h is the counter of
\* the route's limiter
StageCode(stage, req, h, store, e, t) ==
    CASE stage = "dataLimiter" -> DataLimiter(h)
      [] stage = "authLimiter" -> AuthLimiter(h)
      [] stage = "validateApiKey" -> ValidateApiKey(req.key, e)
      [] stage = "validateOAuthToken" -> ValidateOAuthToken(req.token, store, e, t).code
      [] stage = "validateInputData" -> ValidateInputData(req.body)
      [] stage = "handler" -> HandlerCode(req, store, e, t)

\* express runs the chain until a middleware answers instead of calling next()
RECURSIVE RunChain(_, _, _, _, _, _, _)
RunChain(chain, ran, req, h, store, e, t) ==
    IF chain = <<>> THEN [ran |-> ran, code |-> "none"]
    ELSE LET code == StageCode(Head(chain), req, h, store, e, t)
         IN IF code = "ok"
            THEN RunChain(Tail(chain), Append(ran, Head(chain)), req, h, store, e, t)
            ELSE [ran |-> Append(ran, Head(chain)), code |-> code]

\* a request to a protected route: the middleware that ran and the code of
\* the response
GateResult(req, h, store, e, t) == RunChain(Chain(req.route), <<>>, req, h, store, e, t)

\* methods.addRecord: the reference is pushed and counted, and saved;
\* copy is the document the request holds, db the stored one: save() sends
\* the push as $push and the counter as $set of the copy's value plus one
AddRecordSave(db, copy, rid, t) ==
    IF rid \in Range(copy.records) THEN db
    ELSE [db EXCEPT !.records = Append(@, rid),
                    !.totalRecords = copy.totalRecords + 1,
                    !.lastActive = t]

\* the same with no other request between the load and the save
AddRecord(u, rid, t) == AddRecordSave(u, u, rid, t)

\* the requests a caller can make up: a route, an x-api-key header or none, a
\* bearer token or none, a body
Requests ==
    {req \in [route : Routes, key : {NoKey, "app-key", "other-key"},
              token : Presentable \cup {NoToken}, body : {"none", "valid", "invalid"}] :
        req.body = "none" <=> req.route # "POST /records"}

\* the requests sent by a client that holds the tokens it was given
SentRequests == {req \in Requests : req.token \in Held \cup {NoToken}}

\* new WeatherRecord({ user: req.user._id, weather, country, ... }): the
\* body that validateInputData lets through is one payload
NewRecord(rid, u) ==
    [id |-> rid, user |-> u, city |-> "Colombo", country |-> "Sri Lanka"]

\* a request that the gate lets through to its handler: the handler of
\* POST /records stores the record under req.user._id and adds its reference
\* to the user, the handlers of the GET routes read (dataLimiter's count is
\* DataRequest's or OtherDataCaller's)
ServeData(req) ==
    /\ LET g == GateResult(req, hits, users, env, now)
           u == ValidateOAuthToken(req.token, users, env, now).user
       IN /\ g.code \in {"200", "201"}
          /\ IF g.code = "201"
             THEN /\ nextRec <= MaxRecords
                  /\ records' = records \cup {NewRecord(nextRec, u)}
                  /\ nextRec' = nextRec + 1
                  /\ users' = [users EXCEPT ![u] = AddRecord(@, nextRec, now)]
             ELSE UNCHANGED <<records, nextRec, users>>
    /\ resp' = NoResp
    /\ UNCHANGED <<env, now, nextId, pc, prof, doc, info, logins, issuedAccess,
                   issuedRefresh, removed, authHits, globalHits,
                   inflight>>

\* the request of the followed caller: the limiter counts it
DataRequest(req) ==
    /\ hits <= DataMax
    /\ ServeData(req)
    /\ hits' = hits + 1

\* the request of a caller whose window is not followed
OtherDataCaller == UNCHANGED hits

\* what one middleware of the gate has written to the users and the records
\* when it answers or calls next(): the limiter keeps its counter in its own
\* memory store, validateApiKey reads the environment, validateOAuthToken
\* reads the user with findById and validateInputData reads the body
StageEffect_Touch(stage, req, s, e, t) ==
    IF stage = "validateOAuthToken" /\ req.token.id \in Ids(s.users)
    THEN [s EXCEPT !.users[req.token.id] = UpdateLastActive(@, t)]
    ELSE s

StageEffect(stage, req, s, e, t) == s

\* the users and the records after the middleware in ran
RECURSIVE GateEffect(_, _, _, _, _)
GateEffect(ran, req, s, e, t) ==
    IF ran = <<>> THEN s
    ELSE GateEffect(Tail(ran), req, StageEffect(Head(ran), req, s, e, t), e, t)

\* the users and the records after a request that the gate has answered
GateStore(req, h, store, recs, e, t) ==
    GateEffect(GateResult(req, h, store, e, t).ran, req,
               [users |-> store, records |-> recs], e, t)

\* a request that a middleware of the gate answers: the limiter has counted
\* it
RefusedRequest ==
    /\ hits <= DataMax
    /\ \E s \in {GateStore(req, hits, users, records, env, now) :
                    req \in {r \in SentRequests :
                                GateResult(r, hits, users, env, now).code
                                    \notin {"200", "201"}}} :
          /\ users' = s.users
          /\ records' = s.records
    /\ hits' = hits + 1
    /\ resp' = NoResp
    /\ UNCHANGED <<env, now, nextId, pc, prof, doc, info, logins, issuedAccess,
                   issuedRefresh, removed, nextRec, authHits, globalHits,
                   inflight>>

\* the requests a caller can send to the routes behind authLimiter; token is
\* body.refreshToken
AuthRequests ==
    [route : AuthRoutes, key : {NoKey}, token : Presentable \cup {NoToken},
     body : {"none"}]

\* POST /refresh of the followed caller, answered 200
AuthRefresh(tok) == Refresh(tok) /\ AuthAdmitted

\* GET /google, or a POST /refresh answered 4xx or 500, of the followed
\* caller: the limiter has counted it and the store is as before
AuthNoEffect ==
    /\ AuthAdmitted
    /\ \E req \in AuthRequests :
          /\ req.route # "GET /google/callback"
          /\ req.token \in Held \cup {NoToken}
          /\ GateResult(req, authHits, users, env, now).code # "200"
    /\ resp' = NoResp
    /\ UNCHANGED <<env, now, users, nextId, pc, prof, doc, info, logins, issuedAccess,
                   issuedRefresh, removed, hits, records, nextRec, globalHits,
                   inflight>>

\* a request of the followed caller that authLimiter answers 429
AuthRefused ==
    /\ authHits <= AuthMax
    /\ AuthLimiter(authHits) # "ok"
    /\ authHits' = authHits + 1
    /\ resp' = NoResp
    /\ UNCHANGED <<env, now, users, nextId, pc, prof, doc, info, logins, issuedAccess,
                   issuedRefresh, removed, hits, records, nextRec, globalHits,
                   inflight>>

\* authLimiter's window ends: its counters are reset
ResetAuthWindow ==
    /\ authHits > 0
    /\ authHits' = 0
    /\ resp' = NoResp
    /\ UNCHANGED <<env, now, users, nextId, pc, prof, doc, info, logins, issuedAccess,
                   issuedRefresh, removed, hits, records, nextRec, globalHits,
                   inflight>>

\* the limiter's window ends: its counters are reset
ResetWindow ==
    /\ hits > 0
    /\ hits' = 0
    /\ resp' = NoResp
    /\ UNCHANGED <<env, now, users, nextId, pc, prof, doc, info, logins, issuedAccess,
                   issuedRefresh, removed, records, nextRec, authHits, globalHits,
                   inflight>>

\* POST /records, step by step. The gate has let the request through:
\* validateOAuthToken has loaded req.user
PostBegin(p, req) ==
    /\ inflight[p].stage = "idle"
    /\ req.route = "POST /records"
    /\ GateResult(req, hits, users, env, now).code = "201"
    /\ nextRec + Cardinality({q \in Procs : inflight[q].stage = "saveRecord"})
          <= DataRecords
    /\ LET u == ValidateOAuthToken(req.token, users, env, now).user
       IN inflight' = [inflight EXCEPT ![p] =
                          [stage |-> "saveRecord", user |-> u,
                           records |-> users[u].records,
                           totalRecords |-> users[u].totalRecords, rec |-> None]]
    /\ resp' = NoResp
    /\ UNCHANGED <<env, now, users, nextId, pc, prof, doc, info, logins, issuedAccess,
                   issuedRefresh, removed, hits, records, nextRec, authHits,
                   globalHits>>

\* await newRecord.save()
PostSaveRecord(p) ==
    /\ inflight[p].stage = "saveRecord"
    /\ records' = records \cup {NewRecord(nextRec, inflight[p].user)}
    /\ nextRec' = nextRec + 1
    /\ inflight' = [inflight EXCEPT ![p].stage = "addRecord", ![p].rec = nextRec]
    /\ resp' = NoResp
    /\ UNCHANGED <<env, now, users, nextId, pc, prof, doc, info, logins, issuedAccess,
                   issuedRefresh, removed, hits, authHits, globalHits>>

\* await req.user.addRecord(savedRecord._id); the save of a document that is
\* no longer stored writes nothing and the handler ends
PostAddRecord(p) ==
    /\ inflight[p].stage = "addRecord"
    /\ LET w == inflight[p]
       IN IF w.user \in Ids(users)
          THEN /\ users' = [users EXCEPT ![w.user] = AddRecordSave(@, w, w.rec, now)]
               /\ inflight' = [inflight EXCEPT ![p].stage = "updateStats",
                                               ![p].records = Append(@, w.rec),
                                               ![p].totalRecords = @ + 1]
          ELSE /\ inflight' = [inflight EXCEPT ![p] = NoWork]
               /\ UNCHANGED users
    /\ resp' = NoResp
    /\ UNCHANGED <<env, now, nextId, pc, prof, doc, info, logins, issuedAccess,
                   issuedRefresh, removed, hits, records, nextRec, authHits,
                   globalHits>>

\* await req.user.updateStats(): the statistics of cities and countries (not
\* followed here) are saved, and the save stamps lastActive
PostUpdateStats(p) ==
    /\ inflight[p].stage = "updateStats"
    /\ LET w == inflight[p]
       IN IF w.user \in Ids(users)
          THEN users' = [users EXCEPT ![w.user] = UpdateLastActive(@, now)]
          ELSE UNCHANGED users
    /\ inflight' = [inflight EXCEPT ![p] = NoWork]
    /\ resp' = NoResp
    /\ UNCHANGED <<env, now, nextId, pc, prof, doc, info, logins, issuedAccess,
                   issuedRefresh, removed, hits, records, nextRec, authHits,
                   globalHits>>

\* DELETE /account, step by step: authenticateToken and the validator have
\* passed
DeleteBegin(p, bearer) ==
    /\ inflight[p].stage = "idle"
    /\ LET r == DeleteResult(bearer, "DELETE", users, env, now)
       IN /\ r.code = "ok"
          /\ inflight' = [inflight EXCEPT ![p] =
                             [NoWork EXCEPT !.stage = "deleteMany", !.user = r.user]]
    /\ resp' = NoResp
    /\ UNCHANGED <<env, now, users, nextId, pc, prof, doc, info, logins, issuedAccess,
                   issuedRefresh, removed, hits, records, nextRec, authHits,
                   globalHits>>

\* await WeatherRecord.deleteMany({ user: userId })
DeleteMany(p) ==
    /\ inflight[p].stage = "deleteMany"
    /\ records' = {x \in records : x.user # inflight[p].user}
    /\ inflight' = [inflight EXCEPT ![p].stage = "deleteUser"]
    /\ resp' = NoResp
    /\ UNCHANGED <<env, now, users, nextId, pc, prof, doc, info, logins, issuedAccess,
                   issuedRefresh, removed, hits, nextRec, authHits, globalHits>>

\* await User.findByIdAndDelete(userId), and the response
DeleteUser(p) ==
    /\ inflight[p].stage = "deleteUser"
    /\ LET a == inflight[p].user
       IN IF a \in Ids(users)
          THEN /\ users' = [id \in Ids(users) \ {a} |-> users[id]]
               /\ removed' = removed \cup TokenStrings(users[a])
          ELSE UNCHANGED <<users, removed>>
    /\ inflight' = [inflight EXCEPT ![p] = NoWork]
    /\ resp' = NoResp
    /\ UNCHANGED <<env, now, nextId, pc, prof, doc, info, logins, issuedAccess,
                   issuedRefresh, hits, records, nextRec, authHits, globalHits>>

\* the query strings of GET /records: city and country ("none" when absent),
\* limit and offset as parseInt reads them
Queries ==
    [city : {"none", "colombo", "Kandy", ".*"}, country : {"none", "sri", ".*"},
     limit : {0, 1, 200}, offset : {-1, 0, 1}]

\* new RegExp(pattern, 'i').test(value), for the patterns of Queries and the
\* values of NewRecord
RegExpTest(pattern, value) ==
    \/ pattern = ".*"
    \/ <<pattern, value>> \in {<<"colombo", "Colombo">>, <<"sri", "Sri Lanka">>}

\* Math.min(parseInt(limit) || 50, 100) and Math.max(parseInt(offset) || 0, 0)
ParsedLimit(l) == LET v == IF l = 0 THEN 50 ELSE l IN IF v < 100 THEN v ELSE 100

ParsedOffset(o) == IF o > 0 THEN o ELSE 0

\* sort({ timestamp: -1 }): the records, most recent first
RECURSIVE SortRecent(_)
SortRecent(S) ==
    IF S = {} THEN <<>>
    ELSE LET x == CHOOSE y \in S : \A z \in S : z.id <= y.id
         IN <<x>> \o SortRecent(S \ {x})

\* WeatherRecord.find(filter).sort().skip().limit() of GET /records
ListRecords_AllUsers(u, q, recs) ==
    LET found == {x \in recs :
                    /\ q.city # "none" => RegExpTest(q.city, x.city)
                    /\ q.country # "none" => RegExpTest(q.country, x.country)}
        sorted == SortRecent(found)
        first == ParsedOffset(q.offset) + 1
        last == ParsedOffset(q.offset) + ParsedLimit(q.limit)
    IN SubSeq(sorted, first, IF last < Len(sorted) THEN last ELSE Len(sorted))

ListRecords(u, q, recs) ==
    LET found == {x \in recs :
                    /\ x.user = u
                    /\ q.city # "none" => RegExpTest(q.city, x.city)
                    /\ q.country # "none" => RegExpTest(q.country, x.country)}
        sorted == SortRecent(found)
        first == ParsedOffset(q.offset) + 1
        last == ParsedOffset(q.offset) + ParsedLimit(q.limit)
    IN SubSeq(sorted, first, IF last < Len(sorted) THEN last ELSE Len(sorted))

\* GET /records: the code and the records of the response
GetRecords(req, q, store, recs, e, t) ==
    LET g == GateResult(req, 0, store, e, t)
    IN IF g.code = "200"
       THEN [code |-> g.code,
             records |-> ListRecords(ValidateOAuthToken(req.token, store, e, t).user,
                                     q, recs)]
       ELSE [code |-> g.code, records |-> <<>>]

\* globalLimiter (server.js): app.use puts it in front of every route
GlobalLimiter(g) == IF g + 1 > GlobalMax THEN "GLOBAL_RATE_LIMIT" ELSE "ok"

\* routes of server.js itself, behind globalLimiter only
OtherRoutes == {"GET /health"}

\* the counters the three rateLimit() instances keep for the caller's IP
Counters == [global |-> globalHits, data |-> hits, auth |-> authHits]

\* the counter that the limiter of a route's router reads: each rateLimit()
\* call has a store of its own
Budget_Shared(route, c) == c.data + c.auth

Budget(route, c) == IF route \in AuthRoutes THEN c.auth ELSE c.data

\* a request to the app: globalLimiter, then the router's chain
AppResult(req, c, store, e, t) ==
    IF GlobalLimiter(c.global) # "ok"
    THEN [ran |-> <<"globalLimiter">>, code |-> "GLOBAL_RATE_LIMIT"]
    ELSE IF req.route \in OtherRoutes
    THEN [ran |-> <<"globalLimiter", "handler">>, code |-> "200"]
    ELSE LET g == GateResult(req, Budget(req.route, c), store, e, t)
         IN [ran |-> <<"globalLimiter">> \o g.ran, code |-> g.code]

\* the requests one caller sends to the app
AppRequests ==
    {req \in SentRequests : req.key # "other-key" /\ req.body # "invalid"}
    \cup {req \in AuthRequests : /\ req.route # "GET /google/callback"
                                 /\ req.token \in Held \cup {NoToken}}
    \cup [route : OtherRoutes, key : {NoKey}, token : {NoToken}, body : {"none"}]

\* one request of the followed caller, from globalLimiter to the handler:
\* every limiter that runs counts it; POST /records answered 201 has stored
\* the record, POST /refresh answered 200 has issued an access token
AppRequest(req) ==
    LET r == AppResult(req, Counters, users, env, now)
        stages == Range(r.ran)
    IN /\ globalHits <= GlobalMax
       /\ "dataLimiter" \in stages => hits <= DataMax
       /\ "authLimiter" \in stages => authHits <= AuthMax
       /\ globalHits' = globalHits + 1
       /\ hits' = IF "dataLimiter" \in stages THEN hits + 1 ELSE hits
       /\ authHits' = IF "authLimiter" \in stages THEN authHits + 1 ELSE authHits
       /\ IF r.code = "201"
          THEN /\ nextRec <= MaxRecords
               /\ records' = records \cup {NewRecord(nextRec, req.token.id)}
               /\ nextRec' = nextRec + 1
               /\ users' = [users EXCEPT ![req.token.id] = AddRecord(@, nextRec, now)]
               /\ UNCHANGED issuedAccess
          ELSE IF req.route = "POST /refresh" /\ r.code = "200"
          THEN LET f == RefreshResult(req.token, users, env, now)
               IN /\ users' = [users EXCEPT ![f.user] = UpdateLastActive(@, now)]
                  /\ issuedAccess' = issuedAccess \cup {f.accessToken}
                  /\ UNCHANGED <<records, nextRec>>
          ELSE UNCHANGED <<users, records, nextRec, issuedAccess>>
       /\ resp' = NoResp
       /\ UNCHANGED <<env, now, nextId, pc, prof, doc, info, logins, issuedRefresh,
                      removed, inflight>>

\* the windows of the three limiters, begun together at start-up, end
\* together
ResetWindows ==
    /\ globalHits > 0
    /\ globalHits' = 0
    /\ hits' = 0
    /\ authHits' = 0
    /\ resp' = NoResp
    /\ UNCHANGED <<env, now, users, nextId, pc, prof, doc, info, logins, issuedAccess,
                   issuedRefresh, removed, records, nextRec, inflight>>

(* ----------------------------- environment ----------------------------- *)
\* an operator sets an account's status in the store (the schema's enum; no
\* route of the server writes it)
SetStatus(a, st) ==
    /\ a \in Ids(users)
    /\ users[a].status # st
    /\ users' = [users EXCEPT ![a].status = st]
    /\ resp' = NoResp
    /\ UNCHANGED <<env, now, nextId, pc, prof, doc, info, logins, issuedAccess,
                   issuedRefresh, removed, dataVars>>

\* time passes
Tick ==
    /\ now < MaxTime
    /\ now' = now + 1
    /\ resp' = NoResp
    /\ UNCHANGED <<env, users, nextId, pc, prof, doc, info, logins, issuedAccess,
                   issuedRefresh, removed, dataVars>>

(* --------------------------- specifications ---------------------------- *)
DefaultEnv ==
    [API_KEY |-> "app-key", JWT_SECRET |-> "k1", JWT_REFRESH_SECRET |-> "k2",
     JWT_ACCESS_EXPIRES_IN |-> AccessExpiresIn,
     JWT_REFRESH_EXPIRES_IN |-> RefreshExpiresIn]

InitStore ==
    /\ now = 0
    /\ users = << >>
    /\ nextId = 1
    /\ pc = [p \in Procs |-> "idle"]
    /\ prof = [p \in Procs |-> NoProfile]
    /\ doc = [p \in Procs |-> None]
    /\ info = [p \in Procs |-> NoInfo]
    /\ logins = 0
    /\ issuedAccess = {}
    /\ issuedRefresh = {}
    /\ removed = {}
    /\ resp = NoResp
    /\ hits = 0
    /\ records = {}
    /\ nextRec = 1
    /\ authHits = 0
    /\ globalHits = 0
    /\ inflight = [p \in Procs |-> NoWork]

\* concurrent logins against an empty store, default configuration
Init ==
    /\ env = DefaultEnv
    /\ InitStore

Next == \E p \in Procs : Login(p)

Spec == Init /\ [][Next]_vars

\* the configurations the server is run with: the defaults, a longer
\* JWT_REFRESH_EXPIRES_IN, and one secret used for both kinds of token
Environments ==
    {DefaultEnv,
     [DefaultEnv EXCEPT !.JWT_REFRESH_EXPIRES_IN = RefreshExpiresIn + 1],
     [DefaultEnv EXCEPT !.JWT_REFRESH_SECRET = DefaultEnv.JWT_SECRET]}

\* the Google profiles of the token specification: two users, and the second
\* one after taking the first one's email
TokenProfiles ==
    {[id |-> "g1", email |-> "A@x"], [id |-> "g2", email |-> "b@x"],
     [id |-> "g2", email |-> "A@x"]}

InitToken ==
    /\ env \in Environments
    /\ InitStore

TokenLogin ==
    \/ \E pr \in TokenProfiles :
          logins < TokenLogins /\ VerifyByProvider(1, pr.id, pr.email) /\ OtherCaller
    \/ SaveLogin(1)
    \/ VerifyByEmail(1)
    \/ LinkExisting(1)
    \/ CreateUser(1)
    \/ IssueTokens(1)
    \/ Touch(1)

\* one login at a time, with refresh, logout and deletion requests and the
\* clock
NextToken ==
    \/ TokenLogin
    \/ \E t \in Held \cup {NoToken} : Refresh(t) /\ OtherCaller
    \/ \E b \in Held \cup {NoToken}, t \in issuedRefresh \cup {NoToken} : Logout(b, t)
    \/ \E b \in Held \cup {NoToken}, c \in {"DELETE", "delete"} : DeleteAccount(b, c)
    \/ Tick

SpecToken == InitToken /\ [][NextToken]_vars

\* the Google user of the gate specification
GateProfiles == {[id |-> "g1", email |-> "A@x"]}

GateLogin ==
    \/ \E pr \in GateProfiles :
          logins < GateLogins /\ VerifyByProvider(1, pr.id, pr.email) /\ OtherCaller
    \/ SaveLogin(1)
    \/ VerifyByEmail(1)
    \/ CreateUser(1)
    \/ IssueTokens(1)
    \/ Touch(1)

\* a user logs in; requests of one caller go through the gate of the data
\* routes while the clock and the limiter's window advance
NextGate ==
    \/ GateLogin
    \/ \E req \in SentRequests : DataRequest(req)
    \/ RefusedRequest
    \/ ResetWindow
    \/ now < GateTime /\ Tick

SpecGate == Init /\ [][NextGate]_vars

AuthLogin ==
    \/ \E pr \in GateProfiles :
          logins < GateLogins /\ VerifyByProvider(1, pr.id, pr.email) /\ AuthAdmitted
    \/ SaveLogin(1)
    \/ VerifyByEmail(1)
    \/ CreateUser(1)
    \/ IssueTokens(1)
    \/ Touch(1)

\* one caller's requests to the routes behind authLimiter, and the limiter's
\* window
NextAuth ==
    \/ AuthLogin
    \/ \E t \in Held \cup {NoToken} : AuthRefresh(t)
    \/ AuthNoEffect
    \/ AuthRefused
    \/ ResetAuthWindow
    \/ now < GateTime /\ Tick

SpecAuth == Init /\ [][NextAuth]_vars

\* the two Google users of the records specification
RecordsProfiles == {[id |-> "g1", email |-> "A@x"], [id |-> "g2", email |-> "b@x"]}

RecordsLogin ==
    \/ \E pr \in RecordsProfiles :
          logins < GateLogins /\ VerifyByProvider(1, pr.id, pr.email) /\ OtherCaller
    \/ SaveLogin(1)
    \/ VerifyByEmail(1)
    \/ CreateUser(1)
    \/ IssueTokens(1)
    \/ Touch(1)

\* two users log in and store records while the clock advances
NextRecords ==
    \/ RecordsLogin
    \/ \E req \in SentRequests : ServeData(req) /\ OtherDataCaller
    \/ now < GateTime /\ Tick

SpecRecords == Init /\ [][NextRecords]_vars

\* a user logs in; requests of the user's clients to POST /records and
\* DELETE /account are handled concurrently, one await at a time
NextData ==
    \/ GateLogin
    \/ \E p \in Procs, req \in SentRequests : PostBegin(p, req)
    \/ \E p \in Procs : PostSaveRecord(p)
    \/ \E p \in Procs : PostAddRecord(p)
    \/ \E p \in Procs : PostUpdateStats(p)
    \/ \E p \in Procs, b \in Held : DeleteBegin(p, b)
    \/ \E p \in Procs : DeleteMany(p)
    \/ \E p \in Procs : DeleteUser(p)

SpecData == Init /\ [][NextData]_vars

\* one login at a time, a store that may refuse the save of the refresh
\* record, and the clock
NextFault ==
    \/ TokenLogin
    \/ IssueTokensFails(1)
    \/ Tick

SpecFault == Init /\ [][NextFault]_vars

\* the server run with and without API_KEY in its environment
KeyEnvironments == {DefaultEnv, [DefaultEnv EXCEPT !.API_KEY = Unset]}

InitKey ==
    /\ env \in KeyEnvironments
    /\ InitStore

\* the requests of a caller that tries values of x-api-key
KeyRequests ==
    {req \in [route : Routes, key : {NoKey, "", "undefined", "null", "app-key"},
              token : Held \cup {NoToken}, body : {"none", "valid"}] :
        req.body = "none" <=> req.route # "POST /records"}

\* users log in, and requests with any of these keys come in
NextKey ==
    \/ RecordsLogin
    \/ \E req \in KeyRequests : ServeData(req) /\ OtherDataCaller
    \/ now < GateTime /\ Tick

SpecKey == InitKey /\ [][NextKey]_vars

\* a user logs in from a browser, before the followed caller's traffic
LimitsLogin ==
    /\ globalHits = 0
    /\ \/ \E pr \in GateProfiles :
             logins = 0 /\ VerifyByProvider(1, pr.id, pr.email) /\ OtherCaller
       \/ SaveLogin(1)
       \/ VerifyByEmail(1)
       \/ CreateUser(1)
       \/ IssueTokens(1)
       \/ Touch(1)

\* the traffic of the followed caller: requests to the data and auth routers
\* first (the auth ones before or after the data budget is used up), then
\* requests to the other routes until the global budget is used up
LimitsTraffic ==
    \/ \E req \in AppRequests :
          /\ req.route \in Routes
          /\ globalHits = hits + authHits
          /\ AppRequest(req)
    \/ \E req \in AppRequests :
          /\ req.route \in AuthRoutes
          /\ globalHits = hits + authHits
          /\ hits \in {0, DataMax + 1}
          /\ AppRequest(req)
    \/ \E req \in AppRequests :
          /\ req.route \in OtherRoutes
          /\ hits \in {0, DataMax + 1}
          /\ authHits \in {0, AuthMax + 1}
          /\ AppRequest(req)

NextLimits ==
    \/ LimitsLogin
    \/ LimitsTraffic
    \/ ResetWindows

SpecLimits == Init /\ [][NextLimits]_vars

\* one login at a time, with accounts being suspended and reinstated
NextStatus ==
    \/ TokenLogin
    \/ \E t \in Held \cup {NoToken} : Refresh(t) /\ OtherCaller
    \/ \E b \in Held \cup {NoToken} : Me(b)
    \/ \E a \in Ids(users), st \in Statuses : SetStatus(a, st)
    \/ Tick

SpecStatus == InitToken /\ [][NextStatus]_vars

(* ------------------------------ claims --------------------------------- *)
LinkPairs(u) == {<<l.provider, l.providerId>> : l \in Range(u.providers)}

\* the accounts that hold the identity of profile pr: its email and its link
Holders(pr) ==
    {a \in Ids(users) : /\ users[a].email = Lower(pr.email)
                        /\ <<"google", pr.id>> \in LinkPairs(users[a])}

\* C1: in every reachable state no two accounts have the same (stored) email,
\* whatever logins (first, returning, linking) have run or are in flight.
C1_EmailUnique ==
    \A a, b \in Ids(users) : a # b => users[a].email # users[b].email

\* a creation met an email that another login had inserted meanwhile, and the
\* store still holds one account with it
C1_Witness ==
    /\ resp.op = "login" /\ resp.code = "E11000"
    /\ Cardinality({a \in Ids(users) : users[a].email = Lower(resp.prof.email)}) = 1

\* C2: a login that found its (provider, subject, email) unseen, while a
\* concurrent login with the same identity created the account, succeeds and
\* resolves to that account; the duplicate key is not surfaced as a failure.
C2_ConcurrentFirstLoginsConverge ==
    (resp.op = "login" /\ resp.branch = "create" /\ Holders(resp.prof) # {})
        => (resp.code = "ok" /\ resp.user \in Holders(resp.prof))

\* C8: a (provider, providerId) pair is among the links of at most one account.
C8_LinkPairOneAccount ==
    \A a, b \in Ids(users) :
        a # b => LinkPairs(users[a]) \cap LinkPairs(users[b]) = {}

\* C9: an account holds at most one link per provider.
C9_OneLinkPerProvider ==
    \A a \in Ids(users) : \A i, j \in DOMAIN users[a].providers :
        i # j => users[a].providers[i].provider # users[a].providers[j].provider

\* a document without its activity and last-login stamps
Untimed(u) ==
    [u EXCEPT !.lastActive = 0,
              !.providers = [i \in DOMAIN @ |-> [@[i] EXCEPT !.lastLogin = 0]]]

\* C10: a login whose (provider, subject) is linked to account A resolves to
\* A with isNewUser = false whatever its email, and the resolver's save
\* creates no account, adds no link and changes A's time stamps only.
C10_ProviderIdPrecedence ==
    /\ [](\A p \in Procs : info[p].branch = "provider" =>
            /\ doc[p] \in Ids(users)
            /\ <<"google", prof[p].id>> \in LinkPairs(users[doc[p]])
            /\ info[p].isNewUser = FALSE)
    /\ []((resp.op = "login" /\ resp.branch = "provider") =>
            /\ resp.code = "ok"
            /\ <<"google", resp.prof.id>> \in LinkPairs(users[resp.user])
            /\ resp.isNewUser = FALSE)
    /\ [][\A p \in Procs : (pc[p] = "saveLogin" /\ pc'[p] # "saveLogin") =>
            /\ Ids(users') = Ids(users)
            /\ \A a \in Ids(users) : Untimed(users'[a]) = Untimed(users[a])
            /\ \A a \in Ids(users) \ {doc[p]} : users'[a] = users[a]]_vars

\* a login resolved by its Google id although its email is another account's
C10_Witness ==
    /\ resp.op = "login" /\ resp.branch = "provider" /\ resp.code = "ok"
    /\ \E b \in Ids(users) : b # resp.user /\ users[b].email = Lower(resp.prof.email)

\* some account holds a Credential Record with this token string
HasRecord(store, tok) == \E a \in Ids(store) : tok \in TokenStrings(store[a])

\* C3: while the record of a removed refresh token (pulled by logout, cleared
\* by logout of all, or deleted with the account) is absent, a refresh call
\* presenting the token returns no access token.
C3_RemovedTokenNotRefreshed ==
    \A t \in removed :
        ~HasRecord(users, t) =>
            /\ RefreshResult(t, users, env, now).code # "ok"
            /\ RefreshResult(t, users, env, now).accessToken = NoToken

\* a token pulled from an account that is still there and active, with a
\* signature and a signed expiry that still verify, is refused by the lookup
C3_Witness ==
    \E t \in removed :
        /\ ~HasRecord(users, t)
        /\ t.id \in Ids(users) /\ users[t.id].status = "active"
        /\ Verify(t, env.JWT_REFRESH_SECRET, now) = "ok"
        /\ RefreshResult(t, users, env, now).code = "INVALID_REFRESH_TOKEN"

\* C4: refresh answers with an access token only if one single record of the
\* account has the presented token, kind refresh and an expiry after now.
C4_RefreshNeedsOneLiveRecord ==
    \A t \in Presentable :
        RefreshResult(t, users, env, now).code = "ok" =>
            \E r \in Range(users[t.id].tokens) :
                r.token = t /\ r.type = "refresh" /\ r.expiresAt > now

\* C5: an account that is not active gets no token pair from the login
\* callback, no access token from refresh, and fails the bearer check.
C5_OnlyActiveAuthenticate ==
    /\ (resp.op = "login" /\ resp.code = "ok") => users[resp.user].status = "active"
    /\ \A t \in Presentable :
          RefreshResult(t, users, env, now).code = "ok" => users[t.id].status = "active"
    /\ \A t \in Presentable :
          AuthenticateToken(t, users, env, now).code = "ok" => users[t.id].status = "active"

\* C7: no token handed out as an access token is accepted by refresh, and no
\* token handed out as a refresh token passes the bearer check.
C7_TokenKindsNotInterchangeable ==
    /\ \A t \in issuedAccess : RefreshResult(t, users, env, now).code # "ok"
    /\ \A t \in issuedRefresh : AuthenticateToken(t, users, env, now).code # "ok"

IsPrefix(a, b) == Len(a) <= Len(b) /\ SubSeq(b, 1, Len(a)) = a

\* C6: the checks of a protected data request run in the order rate limit,
\* shared secret, bearer token; the response carries the code of the first
\* check that fails, nothing runs after it, and the handler runs only when
\* all three have passed.
C6_GateOrder ==
    \A req \in Requests :
        LET g == GateResult(req, hits, users, env, now)
            limited == hits + 1 > DataMax
            keyCode == ValidateApiKey(req.key, env)
            auth == AuthenticateToken(req.token, users, env, now)
        IN /\ \/ IsPrefix(g.ran, <<"dataLimiter", "validateApiKey", "validateOAuthToken",
                                   "validateInputData", "handler">>)
              \/ IsPrefix(g.ran, <<"dataLimiter", "validateApiKey", "validateOAuthToken",
                                   "handler">>)
           /\ limited => g.code = "RATE_LIMIT_EXCEEDED" /\ g.ran = <<"dataLimiter">>
           /\ (~limited /\ keyCode # "ok") =>
                  g.code = keyCode /\ g.ran = <<"dataLimiter", "validateApiKey">>
           /\ (~limited /\ keyCode = "ok" /\ auth.code # "ok") =>
                  /\ g.code = auth.code
                  /\ g.ran = <<"dataLimiter", "validateApiKey", "validateOAuthToken">>
           /\ (g.code \in {"200", "201"} \/ "handler" \in Range(g.ran)) =>
                  ~limited /\ keyCode = "ok" /\ auth.code = "ok"

\* a record has been stored through the gate, and in the state reached a
\* request with an expired token fails as TOKEN_EXPIRED with the right key, as
\* MISSING_API_KEY without a key
C6_Witness ==
    /\ records # {}
    /\ hits < DataMax
    /\ \E t \in issuedAccess :
          /\ Verify(t, env.JWT_SECRET, now) = "TokenExpiredError"
          /\ \A r \in Routes :
                /\ GateResult([route |-> r, key |-> NoKey, token |-> t, body |-> "valid"],
                              hits, users, env, now).code = "MISSING_API_KEY"
                /\ GateResult([route |-> r, key |-> env.API_KEY, token |-> t,
                               body |-> "valid"],
                              hits, users, env, now).code = "TOKEN_EXPIRED"

C12_IsNewUserDelivered ==
    (resp.op = "login" /\ resp.code = "ok") =>
        /\ resp.access # NoToken /\ resp.refresh # NoToken
        /\ resp.is_new_user = (IF resp.isNewUser THEN "true" ELSE "false")
        /\ resp.isNewUser = (resp.branch = "create")

\* a document without its time stamps and its token records
Core(u) == [Untimed(u) EXCEPT !.tokens = <<>>]

\* C13: the callback route of a successful login appends one refresh record,
\* holding the refresh token of the redirect, to the resolved account and to
\* no other; no other step of a login touches token records; and after the
\* resolver (which creates or links) the route changes time stamps only.
C13_OneRecordPerLogin ==
    /\ []((resp.op = "login" /\ resp.code = "ok") =>
            \E r \in Range(users[resp.user].tokens) :
                r.token = resp.refresh /\ r.type = "refresh")
    /\ [][\A p \in Procs : (pc[p] = "issue" /\ pc'[p] = "touch") =>
            LET old == users[doc[p]].tokens
                new == users'[doc[p]].tokens
            IN /\ Len(new) = Len(old) + 1
               /\ SubSeq(new, 1, Len(old)) = old
               /\ new[Len(new)].type = "refresh"
               /\ new[Len(new)].token = info'[p].tokens.refreshToken
               /\ Ids(users') = Ids(users)
               /\ \A a \in Ids(users) \ {doc[p]} : users'[a] = users[a]
               /\ Core(users'[doc[p]]) = Core(users[doc[p]])]_vars
    /\ [][(\A p \in Procs : ~(pc[p] = "issue" /\ pc'[p] = "touch")) =>
            /\ \A a \in Ids(users) : a \in Ids(users') /\ users'[a].tokens = users[a].tokens
            /\ \A a \in Ids(users') \ Ids(users) : users'[a].tokens = <<>>]_vars
    /\ [][\A p \in Procs : (pc[p] = "touch" /\ pc'[p] = "idle") =>
            /\ Ids(users') = Ids(users)
            /\ \A a \in Ids(users) : Core(users'[a]) = Core(users[a])]_vars

\* a returning login has completed on an account that holds the record of an
\* earlier login as well
C13_Witness ==
    /\ resp.op = "login" /\ resp.code = "ok" /\ resp.branch = "provider"
    /\ Len(users[resp.user].tokens) >= 2
    /\ \E a \in Ids(users) : a # resp.user

\* C14: removing refresh records does not revoke access tokens: an access
\* token handed out for an account that is there and active passes the
\* bearer check exactly while now is before its signed expiry, is answered
\* TOKEN_EXPIRED from then on, and a logout changes the answer to none of
\* them.
C14_AccessTokenOutlivesLogout ==
    /\ [](\A t \in issuedAccess :
            (t.id \in Ids(users) /\ users[t.id].status = "active") =>
                LET a == AuthenticateToken(t, users, env, now)
                IN IF now < t.exp THEN a.code = "ok" /\ a.user = t.id
                   ELSE a.code = "TOKEN_EXPIRED")
    /\ [][(removed' # removed /\ Ids(users') = Ids(users)) =>
            \A t \in issuedAccess :
                AuthenticateToken(t, users', env', now') =
                    AuthenticateToken(t, users, env, now)]_vars

\* after a logout that left the account without refresh records, an access
\* token issued before it is accepted and another one has expired
C14_Witness ==
    \E t, x \in issuedAccess :
        /\ t.id \in Ids(users) /\ users[t.id].tokens = <<>>
        /\ \E r \in removed : r.id = t.id /\ r.iat = t.iat
        /\ AuthenticateToken(t, users, env, now).code = "ok"
        /\ x.id = t.id
        /\ AuthenticateToken(x, users, env, now).code = "TOKEN_EXPIRED"

\* C15: for every active account, the access token generateTokens makes now
\* passes authenticateToken now, and the user set on the request is that
\* account.
C15_IssueVerifyRoundTrip ==
    \A a \in Ids(users) :
        users[a].status = "active" =>
            LET t == GenerateTokens(a, env, now).accessToken
                r == AuthenticateToken(t, users, env, now)
            IN r.code = "ok" /\ r.user = a

\* the callback route has just generated the pair of an active account, while
\* the clock is past 0 and another account is not active
C15_Witness ==
    /\ pc[1] = "touch" /\ doc[1] \in Ids(users) /\ now > 0
    /\ users[doc[1]].status = "active"
    /\ info[1].tokens.accessToken = GenerateTokens(doc[1], env, now).accessToken
    /\ AuthenticateToken(info[1].tokens.accessToken, users, env, now).user = doc[1]
    /\ \E b \in Ids(users) : users[b].status # "active"

\* C16: an access token whose expiry is not after now, with a valid signature
\* or a forged one, is answered TOKEN_EXPIRED by authenticateToken and by
\* validateOAuthToken: never accepted, never another code.
C16_ExpiredIsExpired ==
    \A t \in issuedAccess \cup {Forge(x) : x \in issuedAccess} :
        t.exp <= now =>
            /\ AuthenticateToken(t, users, env, now).code = "TOKEN_EXPIRED"
            /\ ValidateOAuthToken(t, users, env, now).code = "TOKEN_EXPIRED"

\* C17: of the requests of one caller to the routes behind authLimiter in one
\* window, the first 10 reach their handlers; from the 11th on the answer is
\* AUTH_RATE_LIMIT, given by the limiter alone, and such a request starts no
\* login and changes neither the store nor the tokens handed out; after the
\* window's reset requests are admitted again.
C17_AuthLimiterBudget ==
    /\ [](\A req \in AuthRequests :
            LET g == GateResult(req, authHits, users, env, now)
            IN IF authHits < AuthMax
               THEN g.ran = <<"authLimiter", "handler">> /\ g.code # "AUTH_RATE_LIMIT"
               ELSE g.ran = <<"authLimiter">> /\ g.code = "AUTH_RATE_LIMIT")
    /\ [][(authHits >= AuthMax /\ authHits' = authHits + 1) =>
            UNCHANGED <<users, pc, prof, doc, info, logins, issuedAccess, issuedRefresh,
                        removed>>]_vars
    /\ [][(logins' # logins \/ issuedAccess' # issuedAccess) =>
            \/ authHits < AuthMax /\ authHits' = authHits + 1
            \/ authHits' = authHits /\ \E p \in Procs : pc[p] = "touch"]_vars
    /\ [][(authHits' = 0 /\ authHits # 0) =>
            \A req \in AuthRequests :
                GateResult(req, authHits', users', env', now').code # "AUTH_RATE_LIMIT"]_vars

\* the budget of the window is used up, the 11th request has been refused,
\* and a refresh token that POST /refresh would honor is refused by the limiter
C17_Witness ==
    /\ authHits = AuthMax + 1
    /\ \E t \in issuedRefresh :
          /\ RefreshResult(t, users, env, now).code = "ok"
          /\ GateResult([route |-> "POST /refresh", key |-> NoKey, token |-> t,
                         body |-> "none"], authHits, users, env, now).code
                = "AUTH_RATE_LIMIT"

\* C18: a logout without a refresh token, called twice in a row with the
\* same bearer token, is answered 200 both times; the second call removes no
\* record and leaves the store as the first call left it.
C18_LogoutAllTwice ==
    \A b \in Presentable :
        LET first == LogoutResult(b, NoToken, users, env, now)
            second == LogoutResult(b, NoToken, first.store, env, now)
        IN first.code = "ok" =>
              /\ second.code = "ok"
              /\ second.store = first.store
              /\ first.store[first.user].tokens = <<>>

\* a logout of all has removed the two refresh records of an account, and
\* a bearer token of the account is still accepted for the second call
C18_Witness ==
    \E b \in issuedAccess :
        /\ LogoutResult(b, NoToken, users, env, now).code = "ok"
        /\ users[b.id].tokens = <<>>
        /\ Cardinality({r \in removed : r.id = b.id}) >= 2

\* C19: a later login of the account does not invalidate earlier refresh
\* tokens: every refresh token handed out whose record was not removed by a
\* logout or with the account, and whose signed and stored expiries are after
\* now, is honored by refresh.
C19_EarlierTokensSurviveLogin ==
    \A t \in issuedRefresh \ removed :
        (/\ t.id \in Ids(users)
         /\ users[t.id].status = "active"
         /\ now < t.exp
         /\ now < t.iat + RecordLifetime) =>
            LET r == RefreshResult(t, users, env, now)
            IN r.code = "ok" /\ r.user = t.id

\* the same Google user has logged in twice, at different times, and the
\* refresh tokens of both logins are honored
C19_Witness ==
    \E t1, t2 \in issuedRefresh \ removed :
        /\ t1.id = t2.id /\ t1.iat < t2.iat
        /\ t1.id \in Ids(users) /\ Len(users[t1.id].providers) = 1
        /\ RefreshResult(t1, users, env, now).code = "ok"
        /\ RefreshResult(t2, users, env, now).code = "ok"

\* a document without its token records
NoRecords(u) == [u EXCEPT !.tokens = <<>>]

\* C20 (the store): a logout naming a refresh token removes, from the calling
\* account, the records with that token string and nothing else, and leaves
\* every other account as it was, also when the token is another account's.
C20_LogoutFrame ==
    \A b \in Presentable, tok \in Presentable :
        LET r == LogoutResult(b, tok, users, env, now)
        IN r.code = "ok" =>
              /\ DOMAIN r.store = Ids(users)
              /\ \A a \in Ids(users) \ {r.user} : r.store[a] = users[a]
              /\ NoRecords(r.store[r.user]) = NoRecords(users[r.user])
              /\ r.store[r.user].tokens =
                    SelectSeq(users[r.user].tokens, LAMBDA x : x.token # tok)

\* C20: a logout naming a refresh token removes only the matching records of
\* the calling account, and every other refresh token, of the same account
\* and of every other account, that refresh honored before the logout is
\* honored after it.
C20_LogoutOneTokenOnly ==
    /\ C20_LogoutFrame
    /\ \A b \in Presentable, tok \in Presentable :
          LET r == LogoutResult(b, tok, users, env, now)
          IN r.code = "ok" =>
                \A t \in issuedRefresh \ {tok} :
                    RefreshResult(t, users, env, now).code = "ok" =>
                        RefreshResult(t, r.store, env, now).code = "ok"

\* values of body.confirmation: the required one, another case, trailing
\* space, absent
Confirmations == {"DELETE", "delete", "DELETE ", "none"}

C22_BadSignatureIsInvalidToken ==
    \A t \in Presentable \cup {NoToken} :
        LET r == RefreshResult(t, users, env, now)
        IN /\ r.code \in {"ok", "MISSING_REFRESH_TOKEN", "INVALID_REFRESH_TOKEN",
                           "REFRESH_TOKEN_EXPIRED"}
           /\ (t # NoToken /\ t.key # env.JWT_REFRESH_SECRET) =>
                  r.code = "INVALID_REFRESH_TOKEN" /\ RefreshStatus(r.code) = 401


\* the codes the three limiters answer with
LimitCodes == {"GLOBAL_RATE_LIMIT", "RATE_LIMIT_EXCEEDED", "AUTH_RATE_LIMIT"}

\* C23: the global, data and auth budgets are independent counters: the
\* answer to a data request is the same whatever the auth counter is, and the
\* answer to an auth request is the same whatever the data counter is; a
\* request counted by one router's limiter leaves the other router's counter
\* alone; a request that a limiter refuses runs no later middleware (no
\* credential check, no handler) and leaves the users, their tokens and the
\* records as they were
C23_BudgetsIndependent ==
    /\ [](\A req \in AppRequests :
            LET r == AppResult(req, Counters, users, env, now)
            IN /\ req.route \in Routes =>
                    /\ \A a \in {0, AuthMax - 1, AuthMax, AuthMax + 1} :
                          AppResult(req, [Counters EXCEPT !.auth = a], users, env, now) = r
                    /\ r.code = "RATE_LIMIT_EXCEEDED" <=>
                          (globalHits < GlobalMax /\ hits >= DataMax)
               /\ req.route \in AuthRoutes =>
                    /\ \A d \in {0, DataMax - 1, DataMax, DataMax + 1} :
                          AppResult(req, [Counters EXCEPT !.data = d], users, env, now) = r
                    /\ r.code = "AUTH_RATE_LIMIT" <=>
                          (globalHits < GlobalMax /\ authHits >= AuthMax)
               /\ r.code = "GLOBAL_RATE_LIMIT" <=> globalHits >= GlobalMax
               /\ r.code \in LimitCodes =>
                    Range(r.ran) \subseteq {"globalLimiter", "dataLimiter", "authLimiter"})
    /\ [][/\ hits' = hits + 1 => authHits' = authHits /\ globalHits' = globalHits + 1
          /\ authHits' = authHits + 1 => hits' = hits /\ globalHits' = globalHits + 1]_vars
    /\ [][(\/ globalHits >= GlobalMax /\ globalHits' = globalHits + 1
           \/ hits >= DataMax /\ hits' = hits + 1
           \/ authHits >= AuthMax /\ authHits' = authHits + 1) =>
            UNCHANGED <<users, records, nextRec, issuedAccess, issuedRefresh,
                        removed>>]_vars

\* the auth budget is used up, and a data request of the same caller has
\* stored a record
C23_Witness ==
    /\ authHits = AuthMax + 1
    /\ hits = 1
    /\ globalHits = AuthMax + 2
    /\ records # {}
    /\ \E req \in AppRequests :
          /\ req.route = "POST /records"
          /\ AppResult(req, Counters, users, env, now).code = "201"


\* C24: records are isolated per account: every record that is stored
\* belongs to the account of the access token of a POST /records that the
\* gate let through, and the records of a GET /records answer all belong to
\* the account of the access token presented, whatever the query parameters
C24_RecordsIsolated ==
    /\ [](\A req \in Requests :
            (req.route = "GET /records"
                /\ GateResult(req, 0, users, env, now).code = "200") =>
            \A q \in Queries :
                LET r == GetRecords(req, q, users, records, env, now)
                IN \A i \in DOMAIN r.records :
                      /\ r.records[i] \in records
                      /\ req.token \in issuedAccess
                      /\ r.records[i].user = req.token.id)
    /\ [][\A x \in records' \ records :
            \E req \in SentRequests :
                /\ req.route = "POST /records"
                /\ req.token \in issuedAccess
                /\ req.token.id = x.user
                /\ GateResult(req, hits, users, env, now).code = "201"]_vars

\* one account has stored a record, and the listing of another account with
\* no filter is answered 200 and is empty
C24_Witness ==
    \E x \in records, tok \in issuedAccess :
        /\ tok.id # x.user
        /\ LET r == GetRecords([route |-> "GET /records", key |-> "app-key",
                                token |-> tok, body |-> "none"],
                               [city |-> "none", country |-> ".*", limit |-> 0,
                                offset |-> 0], users, records, env, now)
           IN r.code = "200" /\ r.records = <<>>


\* C25: the gate has no effect on the store: after a request that the rate
\* limit, the shared-secret check or the bearer-token check has answered, the
\* accounts with their links and token records and the data records are
\* what they were; a step that counts a request changes them only when
\* that request reached the handler of POST /records
C25_GateWritesNothing ==
    /\ [](\A req \in SentRequests :
            LET g == GateResult(req, hits, users, env, now)
            IN "handler" \notin Range(g.ran) =>
                  GateEffect(g.ran, req, [users |-> users, records |-> records],
                             env, now) = [users |-> users, records |-> records])
    /\ [][(hits' = hits + 1 /\ (users' # users \/ records' # records)) =>
            /\ hits < DataMax
            /\ \E req \in SentRequests :
                  /\ GateResult(req, hits, users, env, now).code = "201"
                  /\ records' = records \cup {NewRecord(nextRec, req.token.id)}]_vars
    /\ [][(hits >= DataMax /\ hits' = hits + 1) =>
            UNCHANGED <<users, records, nextRec, issuedAccess, issuedRefresh,
                        removed>>]_vars

\* the limiter has refused a request of an account that has a record, and
\* the other two checks refuse requests: one without a key, one whose token
\* is a refresh token
C25_Witness ==
    /\ hits = DataMax + 1
    /\ \E x \in records : x.user \in Ids(users) /\ users[x.user].lastActive < now
    /\ \E a \in issuedAccess, r \in issuedRefresh :
          /\ GateResult([route |-> "GET /records", key |-> NoKey, token |-> a,
                         body |-> "none"], 0, users, env, now).code = "MISSING_API_KEY"
          /\ GateResult([route |-> "GET /records", key |-> "app-key", token |-> r,
                         body |-> "none"], 0, users, env, now).code
                = "TOKEN_VERIFICATION_FAILED"


\* the POST /records and DELETE /account requests that p or another process
\* is handling for account a
Creating(a) == {p \in Procs : /\ inflight[p].user = a
                              /\ inflight[p].stage \in {"saveRecord", "addRecord",
                                                        "updateStats"}}

Deleting(a) == {p \in Procs : /\ inflight[p].user = a
                              /\ inflight[p].stage \in {"deleteMany", "deleteUser"}}

\* C26: deletion cascades completely: once a DELETE /account has completed
\* (the account is gone and no deletion of it is still running), no record
\* owned by the account is stored, also when a POST /records of the account
\* that had passed the gate ran concurrently (stated for the states in
\* which that POST has ended as well)
C26_DeletionCascades ==
    \A x \in records :
        x.user \notin Ids(users) => Deleting(x.user) \cup Creating(x.user) # {}

\* C28: when no POST /records of an account is running, its
\* stats.totalRecords is the number of references in its records list
C28_TotalRecordsIsCount ==
    \A a \in Ids(users) :
        Creating(a) = {} => users[a].totalRecords = Len(users[a].records)


\* C27: when the save of the refresh record fails after the verify callback
\* has created or linked an account, the users are left as the callback
\* wrote them (the account and its link to the identity stay), and the
\* caller is answered authentication failed with no tokens; a login with an
\* identity that an account is linked with resolves to that account with
\* isNewUser false, and an account is created only for an identity that no
\* account is linked with
C27_TokenSaveFailure ==
    /\ [][\A p \in Procs :
            (pc[p] = "issue" /\ pc'[p] = "idle" /\ doc[p] \in Ids(users)) =>
                /\ users' = users
                /\ StepOne(users', prof[p]) = doc[p]
                /\ resp'.op = "login" /\ resp'.code = "AuthFailed"
                /\ resp'.access = NoToken /\ resp'.refresh = NoToken
                /\ issuedAccess' = issuedAccess /\ issuedRefresh' = issuedRefresh]_vars
    /\ [][\A p \in Procs :
            (pc[p] = "idle" /\ pc'[p] # "idle" /\ StepOne(users, prof'[p]) # None) =>
                /\ doc'[p] = StepOne(users, prof'[p])
                /\ pc'[p] = "saveLogin"]_vars
    /\ [][\A p \in Procs :
            (pc[p] = "saveLogin" /\ pc'[p] = "issue") =>
                /\ info'[p].isNewUser = FALSE
                /\ doc'[p] = doc[p]
                /\ Ids(users') = Ids(users)]_vars
    /\ [][nextId' # nextId =>
            \E p \in Procs : pc[p] = "create" /\ StepOne(users, prof[p]) = None]_vars
    /\ [](resp.op = "login" /\ resp.code = "ok" /\ resp.branch = "provider" =>
            resp.isNewUser = FALSE /\ StepOne(users, resp.prof) = resp.user)

\* the first login of an identity failed at the save of the refresh record,
\* and its second login is answered with tokens for the one account there
\* is, as an existing user
C27_Witness ==
    /\ logins = 2
    /\ nextId = 2
    /\ resp.op = "login" /\ resp.code = "ok" /\ resp.isNewUser = FALSE
    /\ resp.user \in Ids(users)
    /\ Len(users[resp.user].tokens) = 1
    /\ Len(users[resp.user].providers) = 1


\* C29: the shared-secret check fails closed: when API_KEY is not
\* configured, a request with any x-api-key value is answered
\* INVALID_API_KEY, a request without one (or with an empty one)
\* MISSING_API_KEY, no handler of the data routes runs and no record is
\* stored
C29_FailsClosed ==
    /\ [](env.API_KEY = Unset =>
            \A req \in KeyRequests :
                LET g == GateResult(req, hits, users, env, now)
                IN /\ g.code = IF req.key \in {NoKey, ""} THEN "MISSING_API_KEY"
                               ELSE "INVALID_API_KEY"
                   /\ g.ran = <<"dataLimiter", "validateApiKey">>)
    /\ [](env.API_KEY = Unset => records = {} /\ nextRec = 1)

\* no API_KEY is configured, a user has logged in, and its request with a
\* good token is refused whether it sends the word undefined as the key or
\* no key
C29_Witness ==
    /\ env.API_KEY = Unset
    /\ \E t \in issuedAccess :
          /\ AuthenticateToken(t, users, env, now).code = "ok"
          /\ GateResult([route |-> "POST /records", key |-> "undefined", token |-> t,
                         body |-> "valid"], hits, users, env, now).code
                = "INVALID_API_KEY"
          /\ GateResult([route |-> "GET /records", key |-> NoKey, token |-> t,
                         body |-> "none"], hits, users, env, now).code
                = "MISSING_API_KEY"

\* C30: for every refresh record written at login the stored expiresAt is
\* the expiry signed into the refresh token, whatever
\* JWT_REFRESH_EXPIRES_IN is configured
C30_StoredExpiryIsSignedExpiry ==
    \A a \in Ids(users) :
        \A i \in DOMAIN users[a].tokens :
            LET rec == users[a].tokens[i]
            IN rec.type = "refresh" => rec.expiresAt = rec.token.exp

====
